---- MODULE Spec2Model ----
(***************************************************************************)
(* Model of arduinoSketch.ino (Max_Arduino Color Detector).                *)
(*                                                                         *)
(* Two paths share one AVR core:                                           *)
(*   - the foreground: setup(), then loop() polling the serial receive     *)
(*     buffer and driving PORTB through lightLED / setLEDSequence;         *)
(*   - ISR(INT0_vect), entered on any logical change of pin INT0, which    *)
(*     writes 'C' to the USART data register UDR0.                         *)
(* The model is at instruction granularity wherever the source is inline   *)
(* assembly, because the handler may preempt the foreground between any    *)
(* two instructions.  The USART transmitter, the INT0 edge latch and the   *)
(* host are the environment.                                               *)
(***************************************************************************)
EXTENDS Integers, Naturals, Sequences, FiniteSets, TLC

(* ---- bounds of the model ------------------------------------------- *)
MaxBytes == 3       \* bytes the host delivers in one run
MaxEdges == 3       \* edges on the INT0 pin in one run
MaxEvents == 4      \* bytes delivered plus edges in one run

(* ---- constants of the program -------------------------------------- *)
CH_r == 114         \* 'r'
CH_g == 103         \* 'g'
CH_b == 98          \* 'b'
RED == 13           \* 0x0d  0000 1101
GREEN == 11         \* 0x0b  0000 1011
BLUE == 7           \* 0x07  0000 0111
NONE == 14          \* 0x0e  0000 1110
TOGGLE == 67        \* 0x43  'C'
DDRB_OUT == 15      \* 0x0f  PB0..PB3 as outputs
UCSR0A_IO == 160    \* _SFR_IO_ADDR(UCSR0A) = 0xC0 - 0x20 = 0xA0
UDRE0 == 5          \* bit number of the data-register-empty flag

Patterns == {RED, GREEN, BLUE, NONE}
AllBytes == 0..255
HostBytes == {CH_r, CH_g, CH_b, 120}     \* 'r', 'g', 'b' and 'x'
NoByte == -1        \* an empty transmit register / shift register

(* Where the X pointer register (r27:r26) may point when the handler     *)
(* preempts the foreground.  The handler never loads X, so it uses the    *)
(* value the interrupted code left there:                                 *)
(*   "ram"    some SRAM cell no modelled code reads,                      *)
(*   "rx"     the receive-buffer slot Serial.read() indexes next,         *)
(*   "ucsr0a" the USART status register (left there by Serial code).      *)
XTargets == {"ram", "rx", "ucsr0a"}

VARIABLES
    fpc,            \* foreground program counter
    retpc,          \* where setLEDSequence returns to
    ledPin,         \* argument of setLEDSequence
    r16, r17,       \* CPU registers used by the inline assembly
    X,              \* what the X pointer register points at
    PORTB, DDRB,    \* port B data and direction registers
    receivedByte,   \* char _receivedByte
    rxq,            \* Serial receive buffer (bytes not yet read)
    iflag,          \* SREG.I, global interrupt enable
    int0cfg,        \* EICRA bit 0: any logical change raises a request
    int0mask,       \* EIMSK bit 0
    intf0,          \* INT0 request latch (one bit: edges are not queued)
    isr,            \* stack of handler activations, each its pc
    txen,           \* USART transmitter/receiver enabled (Serial.begin)
    udr,            \* transmit data register: NoByte when empty (UDRE0=1)
    shift,          \* transmit shift register: NoByte when idle
    line,           \* bytes that went out on the serial output
    edges,          \* history: edges that occurred on the pin
    serviced,       \* history: handler invocations
    delivered,      \* history: bytes the host delivered
    consumed,       \* history: values Serial.read() returned
    portHist,       \* history: values written to PORTB
    early,          \* history: an edge occurred before Serial.begin
    inRender,       \* history: an edge occurred while loop() was rendering
    stall           \* history: UDRE0 has been clear ever since the running
                    \*          handler was entered

vars == <<fpc, retpc, ledPin, r16, r17, X, PORTB, DDRB, receivedByte, rxq,
          iflag, int0cfg, int0mask, intf0, isr, txen, udr, shift, line,
          edges, serviced, delivered, consumed, portHist,
          early, inRender, stall>>

cpuRegs == <<r16, r17, X>>
fgVars == <<fpc, retpc, ledPin, receivedByte>>
intVars == <<iflag, int0cfg, int0mask, intf0, isr>>
txVars == <<txen, udr, shift, line>>
histVars == <<edges, serviced, delivered, consumed>>
marks == <<early, inRender>>

(* ---- pure functions -------------------------------------------------- *)

\* (char) of the int Serial.read() returns: char is signed on AVR
ToChar(b) == IF b >= 128 THEN b - 256 ELSE b

\* bit n of byte v, as sbrs tests it
Bit(v, n) == (v \div (2 ^ n)) % 2

\* lightLED with case-insensitive labels
lightLED_NoCase(code) ==
    IF code = CH_r \/ code = 82 THEN 1
    ELSE IF code = CH_g \/ code = 71 THEN 2
    ELSE IF code = CH_b \/ code = 66 THEN 3
    ELSE 0

\* the switch of lightLED: the argument it passes to setLEDSequence
lightLED(code) ==
    IF code = CH_r THEN 1
    ELSE IF code = CH_g THEN 2
    ELSE IF code = CH_b THEN 3
    ELSE 0

\* the switch of setLEDSequence: the immediate loaded into r16
setLEDSequence(pin) ==
    IF pin = 1 THEN RED
    ELSE IF pin = 2 THEN GREEN
    ELSE IF pin = 3 THEN BLUE
    ELSE NONE

Top(s) == s[Len(s)]
Last(s) == s[Len(s)]
Pop(s) == SubSeq(s, 1, Len(s) - 1)

LoopPcs == {"avail", "read", "light"}
InLoop == fpc \in LoopPcs \/ (fpc \in {"ldi", "out"} /\ retpc = "avail")

\* loop() has read a byte and not yet written its pattern to the port
Rendering == InLoop /\ fpc \in {"light", "ldi", "out"}

(* ---- interrupt logic ------------------------------------------------- *)

\* the instruction after sei always executes before a pending interrupt
SeiShadow == isr # <<>> /\ Top(isr) = "udr"

\* a pending, enabled INT0 request is taken before the next instruction
IntTake == iflag /\ intf0 /\ int0mask /\ ~SeiShadow

\* the foreground executes an instruction
FgRuns == isr = <<>> /\ ~IntTake

\* the handler activation on top of the stack executes instruction p
IsrAt(p) == isr # <<>> /\ Top(isr) = p /\ ~IntTake

IsrGoto(p) == isr' = [isr EXCEPT ![Len(isr)] = p]

Init ==
    /\ fpc = "ddrb" /\ retpc = "avail" /\ ledPin = 0
    /\ r16 = 0 /\ r17 = 0 /\ X = "ram"
    /\ PORTB = 0 /\ DDRB = 0
    /\ receivedByte = 0
    /\ rxq = <<>>
    /\ iflag \in BOOLEAN
    /\ int0cfg = FALSE /\ int0mask = FALSE /\ intf0 = FALSE
    /\ isr = <<>>
    /\ txen = FALSE /\ udr = NoByte /\ shift = NoByte /\ line = <<>>
    /\ edges = 0 /\ serviced = 0
    /\ delivered = <<>> /\ consumed = <<>> /\ portHist = <<>>
    /\ early = FALSE /\ inRender = FALSE /\ stall = FALSE

(* ---- foreground: setup() --------------------------------------------- *)

\* ldi r18, 0x0f ; out DDRB, r18
SetupDDRB ==
    /\ FgRuns /\ fpc = "ddrb"
    /\ DDRB' = DDRB_OUT
    /\ fpc' = "ddrd"
    /\ UNCHANGED <<retpc, ledPin, receivedByte, cpuRegs, PORTB, rxq,
                   intVars, txVars, histVars, portHist,
                   marks, stall>>

\* cbi DDRD, DDD2 ; EICRA |= 0x01
SetupEICRA ==
    /\ FgRuns /\ fpc = "ddrd"
    /\ int0cfg' = TRUE
    /\ fpc' = "eimsk"
    /\ UNCHANGED <<retpc, ledPin, receivedByte, cpuRegs, PORTB, DDRB, rxq,
                   iflag, int0mask, intf0, isr, txVars, histVars, portHist,
                   marks, stall>>

\* EIMSK |= 0x01
SetupEIMSK ==
    /\ FgRuns /\ fpc = "eimsk"
    /\ int0mask' = TRUE
    /\ fpc' = "sei"
    /\ UNCHANGED <<retpc, ledPin, receivedByte, cpuRegs, PORTB, DDRB, rxq,
                   iflag, int0cfg, intf0, isr, txVars, histVars, portHist,
                   marks, stall>>

\* sei
SetupSei ==
    /\ FgRuns /\ fpc = "sei"
    /\ iflag' = TRUE
    /\ fpc' = "test1"
    /\ UNCHANGED <<retpc, ledPin, receivedByte, cpuRegs, PORTB, DDRB, rxq,
                   int0cfg, int0mask, intf0, isr, txVars, histVars, portHist,
                   marks, stall>>

\* ledTest lighting blue before green
TestPin_Swapped(pc) == IF pc = "test1" THEN 1 ELSE IF pc = "test2" THEN 3
                       ELSE IF pc = "test3" THEN 2 ELSE 0

\* ledTest: delay(1000); setLEDSequence(n), for n = 1, 2, 3, 0 in turn
TestPin(pc) == IF pc = "test1" THEN 1 ELSE IF pc = "test2" THEN 2
               ELSE IF pc = "test3" THEN 3 ELSE 0

TestNext(pc) == IF pc = "test1" THEN "test2" ELSE IF pc = "test2" THEN "test3"
                ELSE IF pc = "test3" THEN "test0" ELSE "begin"

ledTest ==
    /\ FgRuns /\ fpc \in {"test1", "test2", "test3", "test0"}
    /\ ledPin' = TestPin(fpc)
    /\ retpc' = TestNext(fpc)
    /\ fpc' = "ldi"
    /\ UNCHANGED <<receivedByte, cpuRegs, PORTB, DDRB, rxq,
                   intVars, txVars, histVars, portHist,
                   marks, stall>>

\* Serial.begin(9600): the USART transmitter and receiver are switched on;
\* a byte left in the data register starts to go out
SerialBegin ==
    /\ FgRuns /\ fpc = "begin"
    /\ txen' = TRUE
    /\ shift' = udr
    /\ udr' = NoByte
    /\ stall' = FALSE
    /\ fpc' = "avail"
    /\ UNCHANGED <<retpc, ledPin, receivedByte, cpuRegs, PORTB, DDRB, rxq,
                   intVars, line, histVars, portHist, marks>>

(* ---- foreground: loop(), lightLED(), setLEDSequence() ----------------- *)

\* loop() with the test Serial.available() >= 0: it reads also when the
\* buffer is empty
LoopAvailable_Always ==
    /\ FgRuns /\ fpc = "avail"
    /\ fpc' = "read"
    /\ UNCHANGED <<retpc, ledPin, receivedByte, cpuRegs, PORTB, DDRB, rxq,
                   intVars, txVars, histVars, portHist,
                   marks, stall>>

\* if (Serial.available() > 0): poll and return
LoopAvailable ==
    /\ FgRuns /\ fpc = "avail"
    /\ fpc' = IF Len(rxq) > 0 THEN "read" ELSE "avail"
    /\ UNCHANGED <<retpc, ledPin, receivedByte, cpuRegs, PORTB, DDRB, rxq,
                   intVars, txVars, histVars, portHist,
                   marks, stall>>

\* loop() reading the newest byte of the buffer instead of the oldest
LoopRead_Newest ==
    /\ FgRuns /\ fpc = "read"
    /\ receivedByte' = ToChar(Last(rxq))
    /\ rxq' = SubSeq(rxq, 1, Len(rxq) - 1)
    /\ consumed' = Append(consumed, Last(rxq))
    /\ fpc' = "light"
    /\ UNCHANGED <<retpc, ledPin, cpuRegs, PORTB, DDRB,
                   intVars, txVars, edges, serviced, delivered, portHist,
                   marks, stall>>

\* _receivedByte = Serial.read();
LoopRead ==
    /\ FgRuns /\ fpc = "read"
    /\ receivedByte' = ToChar(Head(rxq))
    /\ rxq' = Tail(rxq)
    /\ consumed' = Append(consumed, Head(rxq))
    /\ fpc' = "light"
    /\ UNCHANGED <<retpc, ledPin, cpuRegs, PORTB, DDRB,
                   intVars, txVars, edges, serviced, delivered, portHist,
                   marks, stall>>

\* lightLED(_receivedByte): the switch picks the argument and calls
LoopLightLED ==
    /\ FgRuns /\ fpc = "light"
    /\ ledPin' = lightLED(receivedByte)
    /\ retpc' = "avail"
    /\ fpc' = "ldi"
    /\ UNCHANGED <<receivedByte, cpuRegs, PORTB, DDRB, rxq,
                   intVars, txVars, histVars, portHist,
                   marks, stall>>

\* setLEDSequence whose default case loads nothing: r16 keeps its old value
SetLEDLdi_Sticky ==
    /\ FgRuns /\ fpc = "ldi"
    /\ r16' = IF ledPin \in 1..3 THEN setLEDSequence(ledPin) ELSE r16
    /\ fpc' = "out"
    /\ UNCHANGED <<retpc, ledPin, receivedByte, r17, X, PORTB, DDRB, rxq,
                   intVars, txVars, histVars, portHist,
                   marks, stall>>

\* setLEDSequence, first asm statement: ldi r16, <pattern>
SetLEDLdi ==
    /\ FgRuns /\ fpc = "ldi"
    /\ r16' = setLEDSequence(ledPin)
    /\ fpc' = "out"
    /\ UNCHANGED <<retpc, ledPin, receivedByte, r17, X, PORTB, DDRB, rxq,
                   intVars, txVars, histVars, portHist,
                   marks, stall>>

\* setLEDSequence, second asm statement: out PORTB, r16 ; return
SetLEDOut ==
    /\ FgRuns /\ fpc = "out"
    /\ PORTB' = r16
    /\ portHist' = Append(portHist, r16)
    /\ fpc' = retpc
    /\ UNCHANGED <<retpc, ledPin, receivedByte, cpuRegs, DDRB, rxq,
                   intVars, txVars, histVars,
                   marks, stall>>

Foreground ==
    \/ SetupDDRB \/ SetupEICRA \/ SetupEIMSK \/ SetupSei \/ ledTest
    \/ SerialBegin \/ LoopAvailable \/ LoopRead \/ LoopLightLED
    \/ SetLEDLdi \/ SetLEDOut

(* ---- ISR(INT0_vect) --------------------------------------------------- *)

\* The hardware vectors to the handler: I is cleared, the request latch is
\* cleared, and the handler starts with whatever the interrupted code left
\* in X (a nested activation inherits the X of the one it interrupts).
IsrEnter ==
    /\ IntTake
    /\ iflag' = FALSE
    /\ intf0' = FALSE
    /\ isr' = Append(isr, "cli")
    /\ serviced' = serviced + 1
    /\ IF isr = <<>> THEN X' \in XTargets ELSE X' = X
    /\ stall' = IF isr = <<>> THEN udr # NoByte ELSE stall
    /\ UNCHANGED <<fgVars, r16, r17, PORTB, DDRB, rxq, int0cfg, int0mask,
                   txVars, edges, delivered, consumed, portHist, marks>>

\* cli ; push %0
IsrCli ==
    /\ IsrAt("cli")
    /\ iflag' = FALSE
    /\ IsrGoto("st")
    /\ UNCHANGED <<fgVars, cpuRegs, PORTB, DDRB, rxq, int0cfg, int0mask,
                   intf0, txVars, histVars, portHist,
                   marks, stall>>

\* USART_Transmit: st X, %1  -- stores the number _SFR_IO_ADDR(UCSR0A) into
\* the cell X points at (a store into UCSR0A itself changes no flag)
IsrSt ==
    /\ IsrAt("st")
    /\ rxq' = IF X = "rx" /\ rxq # <<>>
              THEN [rxq EXCEPT ![1] = UCSR0A_IO] ELSE rxq
    /\ IsrGoto("ld")
    /\ UNCHANGED <<fgVars, cpuRegs, PORTB, DDRB, iflag, int0cfg, int0mask,
                   intf0, txVars, histVars, portHist,
                   marks, stall>>

\* what ld r16, X reads back from the cell X points at
LoadX == IF X = "ucsr0a"
         THEN (IF udr = NoByte THEN 2 ^ UDRE0 ELSE 0)
         ELSE UCSR0A_IO

\* ld r16, X
IsrLd ==
    /\ IsrAt("ld")
    /\ r16' = LoadX
    /\ IsrGoto("sbrs")
    /\ UNCHANGED <<fgVars, r17, X, PORTB, DDRB, rxq, iflag, int0cfg,
                   int0mask, intf0, txVars, histVars, portHist,
                   marks, stall>>

\* sbrs r16, UDRE0 ; rjmp USART_Transmit
IsrSbrs ==
    /\ IsrAt("sbrs")
    /\ IsrGoto(IF Bit(r16, UDRE0) = 1 THEN "ldi" ELSE "st")
    /\ UNCHANGED <<fgVars, cpuRegs, PORTB, DDRB, rxq, iflag, int0cfg,
                   int0mask, intf0, txVars, histVars, portHist,
                   marks, stall>>

\* the handler loading the address constant instead of 'C'
IsrLdi_Wrong ==
    /\ IsrAt("ldi")
    /\ r17' = UCSR0A_IO
    /\ IsrGoto("sei")
    /\ UNCHANGED <<fgVars, r16, X, PORTB, DDRB, rxq, iflag, int0cfg,
                   int0mask, intf0, txVars, histVars, portHist,
                   marks, stall>>

\* the handler also storing to the data register inside the assembly (as
\* the manual's USART_Transmit does), in addition to the C store after it
IsrLdi_AlsoStore ==
    /\ IsrAt("ldi")
    /\ r17' = TOGGLE
    /\ udr' = IF udr # NoByte THEN udr
              ELSE IF txen /\ shift = NoByte THEN NoByte ELSE TOGGLE
    /\ shift' = IF udr = NoByte /\ txen /\ shift = NoByte THEN TOGGLE
                ELSE shift
    /\ IsrGoto("sei")
    /\ UNCHANGED <<fgVars, r16, X, PORTB, DDRB, rxq, iflag, int0cfg,
                   int0mask, intf0, txen, line, histVars, portHist,
                   marks, stall>>

\* ldi r17, 0x43 ; pop %0
IsrLdi ==
    /\ IsrAt("ldi")
    /\ r17' = TOGGLE
    /\ IsrGoto("sei")
    /\ UNCHANGED <<fgVars, r16, X, PORTB, DDRB, rxq, iflag, int0cfg,
                   int0mask, intf0, txVars, histVars, portHist,
                   marks, stall>>

\* sei
IsrSei ==
    /\ IsrAt("sei")
    /\ iflag' = TRUE
    /\ IsrGoto("udr")
    /\ UNCHANGED <<fgVars, cpuRegs, PORTB, DDRB, rxq, int0cfg, int0mask,
                   intf0, txVars, histVars, portHist,
                   marks, stall>>

\* The transmitter after a store of v to UDR0, as <<data register, shift
\* register>>: a store made while the data register is full (UDRE0 clear)
\* is ignored; otherwise the byte goes straight to an idle shift register
\* of an enabled transmitter, and waits in the data register if not.
WriteUDR0(v) ==
    IF udr # NoByte THEN <<udr, shift>>
    ELSE IF txen /\ shift = NoByte THEN <<NoByte, v>>
    ELSE <<v, shift>>

\* UDR0 = val;   (val lives in r17)
IsrUdr ==
    /\ IsrAt("udr")
    /\ udr' = WriteUDR0(r17)[1]
    /\ shift' = WriteUDR0(r17)[2]
    /\ IsrGoto("epi")
    /\ UNCHANGED <<fgVars, cpuRegs, PORTB, DDRB, rxq, iflag, int0cfg,
                   int0mask, intf0, txen, line, histVars, portHist,
                   marks, stall>>

\* compiler epilogue and reti: the activation ends, I is set
IsrReti ==
    /\ IsrAt("epi")
    /\ isr' = Pop(isr)
    /\ iflag' = TRUE
    /\ UNCHANGED <<fgVars, cpuRegs, PORTB, DDRB, rxq, int0cfg, int0mask,
                   intf0, txVars, histVars, portHist,
                   marks, stall>>

Handler ==
    \/ IsrEnter \/ IsrCli \/ IsrSt \/ IsrLd \/ IsrSbrs \/ IsrLdi
    \/ IsrSei \/ IsrUdr \/ IsrReti

(* ---- environment ------------------------------------------------------ *)

\* any logical change on the INT0 pin sets the request latch
Edge ==
    /\ edges < MaxEdges /\ edges + Len(delivered) < MaxEvents
    /\ edges' = edges + 1
    /\ intf0' = (intf0 \/ int0cfg)
    /\ early' = (early \/ ~txen)
    /\ inRender' = (inRender \/ Rendering)
    /\ UNCHANGED <<fgVars, cpuRegs, PORTB, DDRB, rxq, iflag, int0cfg,
                   int0mask, isr, txVars, serviced, delivered, consumed,
                   portHist, stall>>

\* the host sends a byte; the receive interrupt of the serial driver puts
\* it in the receive buffer (it runs only while interrupts are enabled)
HostSend ==
    /\ txen /\ iflag /\ ~IntTake /\ ~SeiShadow
    /\ Len(delivered) < MaxBytes /\ edges + Len(delivered) < MaxEvents
    /\ \E b \in HostBytes :
         /\ rxq' = Append(rxq, b)
         /\ delivered' = Append(delivered, b)
    /\ UNCHANGED <<fgVars, cpuRegs, PORTB, DDRB, intVars, txVars, edges,
                   serviced, consumed, portHist,
                   marks, stall>>

\* the shift register has sent its byte on the line; it takes the byte
\* waiting in the data register, if any, and UDRE0 is set again
TxDone ==
    /\ shift # NoByte
    /\ line' = Append(line, shift)
    /\ shift' = udr
    /\ udr' = NoByte
    /\ stall' = FALSE
    /\ UNCHANGED <<fgVars, cpuRegs, PORTB, DDRB, rxq, intVars, txen,
                   histVars, portHist, marks>>

Environment == Edge \/ HostSend \/ TxDone

Next == Foreground \/ Handler \/ Environment

Spec == Init /\ [][Next]_vars

(* ---- rendering one byte, uninterrupted -------------------------------- *)

\* The state setup() leaves behind, with one byte b (any of the 256) in the
\* receive buffer and no edge on the pin: loop() renders b uninterrupted.
InitRender ==
    /\ fpc = "avail" /\ retpc = "avail" /\ ledPin = 0
    /\ r16 = NONE /\ r17 = 0 /\ X = "ram"
    /\ PORTB = NONE /\ DDRB = DDRB_OUT
    /\ receivedByte = 0
    /\ \E b \in AllBytes : rxq = <<b>> /\ delivered = <<b>>
    /\ iflag = TRUE
    /\ int0cfg = TRUE /\ int0mask = TRUE /\ intf0 = FALSE
    /\ isr = <<>>
    /\ txen = TRUE /\ udr = NoByte /\ shift = NoByte /\ line = <<>>
    /\ edges = 0 /\ serviced = 0
    /\ consumed = <<>> /\ portHist = <<RED, GREEN, BLUE, NONE>>
    /\ early = FALSE /\ inRender = FALSE /\ stall = FALSE

NextRender ==
    LoopAvailable \/ LoopRead \/ LoopLightLED \/ SetLEDLdi \/ SetLEDOut

SpecRender == InitRender /\ [][NextRender]_vars

(* ---- rendering a byte twice, after any other byte ---------------------- *)

\* The state setup() leaves behind, with three bytes a, b, b in the receive
\* buffer (a one of the host's codes, b any of the 256) and no edge on the
\* pin: loop() renders a, then b twice, uninterrupted.
InitTwice ==
    /\ fpc = "avail" /\ retpc = "avail" /\ ledPin = 0
    /\ r16 = NONE /\ r17 = 0 /\ X = "ram"
    /\ PORTB = NONE /\ DDRB = DDRB_OUT
    /\ receivedByte = 0
    /\ \E a \in HostBytes, b \in AllBytes :
         rxq = <<a, b, b>> /\ delivered = <<a, b, b>>
    /\ iflag = TRUE
    /\ int0cfg = TRUE /\ int0mask = TRUE /\ intf0 = FALSE
    /\ isr = <<>>
    /\ txen = TRUE /\ udr = NoByte /\ shift = NoByte /\ line = <<>>
    /\ edges = 0 /\ serviced = 0
    /\ consumed = <<>> /\ portHist = <<RED, GREEN, BLUE, NONE>>
    /\ early = FALSE /\ inRender = FALSE /\ stall = FALSE

SpecTwice == InitTwice /\ [][NextRender]_vars

(* ---- properties ------------------------------------------------------- *)

\* the mapping table of the specification, byte to 4-bit port value
TablePattern(b) ==
    IF b = 114 THEN 13 ELSE IF b = 103 THEN 11 ELSE IF b = 98 THEN 7 ELSE 14

LowNibble(v) == v % 16
Idle == isr = <<>> /\ fpc = "avail"

\* C1: rendering a received byte b, uninterrupted, writes exactly the
\* table's value to the low 4 bits of the port: 'r' -> 1101, 'g' -> 1011,
\* 'b' -> 0111, every other byte (upper case and 0 included) -> 1110.
C1_RenderTable ==
    (fpc = "avail" /\ consumed # <<>>) =>
        /\ LowNibble(PORTB) = TablePattern(consumed[1])
        /\ portHist = <<RED, GREEN, BLUE, NONE, TablePattern(consumed[1])>>

C1_Witness ==
    fpc = "avail" /\ consumed = <<CH_b>> /\ LowNibble(PORTB) = BLUE

TxDrained == udr = NoByte /\ shift = NoByte

\* the handler executes its store to UDR0 in this step
UdrStoreStep == isr # <<>> /\ Top(isr) = "udr" /\ isr' # isr

\* some handler activation executes an instruction (or is entered) in this step
HandlerStep == isr' # isr

\* C2: once the main loop runs, under every interleaving with the edge
\* handler, the low 4 bits of the port always show one of the four
\* patterns 1101, 1011, 0111, 1110 (edges arriving once the loop runs).
C2_Original == (InLoop /\ ~early) => LowNibble(PORTB) \in Patterns

\* C3: n serviced edges put exactly n bytes on the serial output (counted
\* once the handler has returned and the transmitter has drained; edges
\* arriving once the serial link is up).
C3_Original ==
    (~early /\ isr = <<>> /\ TxDrained) => Len(line) = serviced

\* C4: the handler stores to the transmit data register only while the
\* data-register-empty flag is set.
C4_Original == [][(~early /\ UdrStoreStep) => udr = NoByte]_vars

\* C5: at most one activation of the handler exists at any time, also when
\* a further edge arrives while it runs (edges arriving once the loop runs).
C5_Original == ~early => Len(isr) <= 1

\* C6: one edge while loop() renders a received 'b': once both are done
\* the port shows BLUE and exactly one 0x43 has been transmitted.
C6_Original ==
    (/\ delivered = <<CH_b>> /\ edges = 1 /\ inRender
     /\ Idle /\ rxq = <<>> /\ consumed # <<>> /\ TxDrained)
    => (LowNibble(PORTB) = BLUE /\ line = <<TOGGLE>>)

\* C7: no step of the handler changes the port, the receive buffer, the
\* last-received byte, or the working state of a render in progress (the
\* argument of setLEDSequence, and r16 between its two instructions).
C7_Original ==
    [][HandlerStep =>
          /\ UNCHANGED <<PORTB, rxq, receivedByte, ledPin>>
          /\ (fpc = "out" => r16' = r16)]_vars

\* C8: every byte put on the serial output is 0x43, and each one comes from
\* a run of the handler: the foreground transmits nothing.
InFlight == (IF udr = NoByte THEN 0 ELSE 1) + (IF shift = NoByte THEN 0 ELSE 1)

C8_OnlyToggle ==
    /\ \A i \in 1..Len(line) : line[i] = 67
    /\ udr \in {NoByte, 67} /\ shift \in {NoByte, 67}
    /\ Len(line) + InFlight <= serviced

C8_Witness ==
    /\ line = <<67, 67>> /\ Idle
    /\ consumed # <<>> /\ Last(consumed) = 120

\* C9: with no edge, loop() consumes the delivered bytes once each, in
\* arrival order, and writes exactly their patterns, in order, to the port;
\* when idle the port shows the pattern of the last consumed byte.
RECURSIVE MapTable(_)
MapTable(s) ==
    IF s = <<>> THEN <<>> ELSE <<TablePattern(Head(s))>> \o MapTable(Tail(s))

Rendered == IF Rendering THEN SubSeq(consumed, 1, Len(consumed) - 1)
            ELSE consumed

C9_InOrder ==
    (edges = 0 /\ InLoop) =>
        /\ delivered = consumed \o rxq
        /\ portHist = <<13, 11, 7, 14>> \o MapTable(Rendered)
        /\ (Idle /\ consumed # <<>>) =>
               LowNibble(PORTB) = TablePattern(Last(consumed))

C9_Witness ==
    /\ edges = 0 /\ Idle
    /\ consumed = <<CH_g, CH_b, 120>>
    /\ portHist = <<13, 11, 7, 14, 11, 7, 14>>

\* C10: while the transmitter has not been ready at any time since the
\* handler was entered, the handler is still in its wait loop: it has not
\* stored to UDR0, has not returned, and the foreground does not run.
C10_Original ==
    (~early /\ stall) =>
        (Len(isr) = 1 /\ isr[1] \in {"cli", "st", "ld", "sbrs"})

\* C11: within one handler invocation the store of 0x43 to UDR0 comes after
\* transmit-ready was observed and before interrupts are re-enabled; the
\* foreground executes nothing while an activation exists, and only an
\* activation that has stored returns.
C11_Original ==
    [][/\ (~early /\ UdrStoreStep) => (udr = NoByte /\ ~iflag)
       /\ isr # <<>> => UNCHANGED <<fpc, retpc, ledPin, receivedByte, PORTB>>
       /\ (isr # <<>> /\ Len(isr') < Len(isr)) => Top(isr) = "epi"]_vars

\* the LED lines (PB0..PB3) that are driven low
LinesLow == {i \in 0..3 : Bit(PORTB, i) = 0}

\* C12: from the moment the four LED lines are outputs, at most one of them
\* is low, the start of setup and the self-test included.
C12_Original == DDRB = DDRB_OUT => Cardinality(LinesLow) <= 1

\* C16: the handler never stores to the transmit data register before
\* Serial.begin has run, also when an edge occurs during setup or the
\* self-test (handler runs entered after setup's own sei).
C16_Original == [][(UdrStoreStep /\ fpc # "sei") => txen]_vars

\* C13: rendering is idempotent and history-free: after any byte a (any
\* prior port pattern), the first render of b writes the pattern that b
\* alone determines, and the second render of b writes the same value and
\* leaves it on the port.
C13_Idempotent ==
    /\ Len(portHist) >= 6 =>
           LowNibble(portHist[6]) = TablePattern(delivered[2])
    /\ Len(portHist) = 7 =>
           /\ portHist[7] = portHist[6]
           /\ fpc = "avail" => PORTB = portHist[6]

C13_Witness ==
    /\ delivered = <<CH_r, 120, 120>> /\ consumed = delivered
    /\ fpc = "avail" /\ Len(portHist) = 7
    /\ portHist[5] = RED /\ PORTB = NONE

\* C14: a loop iteration that finds no received byte is a no-op: whatever
\* step is taken while loop() is at its poll with an empty buffer, loop()
\* stays at the poll, consumes nothing and leaves the port, the
\* last-received byte and (handler and transmitter steps aside) the serial
\* output unchanged; once the loop runs, the port changes only at the end of
\* an iteration that consumed a byte.
C14_NoOp ==
    [][/\ (fpc = "avail" /\ rxq = <<>>) =>
             /\ fpc' = "avail"
             /\ UNCHANGED <<consumed, receivedByte, PORTB, portHist>>
             /\ (isr = <<>> /\ isr' = <<>> /\ line' = line) =>
                    UNCHANGED <<udr, shift>>
       /\ (InLoop /\ PORTB' # PORTB) =>
             (Rendering /\ fpc = "out" /\ consumed # <<>>)]_vars

C14_Witness ==
    /\ Idle /\ InLoop /\ rxq = <<>>
    /\ delivered = <<CH_g>> /\ consumed = delivered
    /\ PORTB = GREEN /\ edges = 1 /\ line = <<67>>

\* C15: every run of the handler ends with interrupts enabled again, and an
\* edge that occurs after the handler has returned is serviced by a run of
\* its own (not nested in another) whose store puts its own byte into the
\* transmitter.  (The part a finite run can refute.)
C15_Original ==
    [][/\ (isr # <<>> /\ Len(isr') < Len(isr)) => iflag'
       /\ (~early /\ UdrStoreStep /\ Len(isr) = 1) =>
              <<udr', shift'>> # <<udr, shift>>]_vars

\* C17: the bytes transmitted (those still in the transmitter included) never
\* outnumber the edges that occurred on the pin; with coalesced edges there
\* are fewer.
C17_NoSpurious ==
    /\ Len(line) + InFlight <= edges
    /\ serviced <= edges

C17_Witness ==
    /\ Idle /\ TxDrained /\ ~intf0 /\ ~early
    /\ edges = 3 /\ serviced = 2 /\ Len(line) = 2

\* C18: an edge never cancels a pending render: whenever loop() completes
\* the render of the byte it consumed, the port shows that byte's pattern.
\* (The part a finite run can refute.)
C18_Original ==
    [][(InLoop /\ fpc = "out" /\ fpc' = "avail") =>
           LowNibble(PORTB') = TablePattern(Last(consumed))]_vars

\* C19: with no edge, the self-test writes RED, GREEN, BLUE, NONE to the
\* port in that order (what has been written so far is always a prefix of
\* that sequence), and the port shows NONE (1110) when setup finishes and
\* the main loop starts.
C19_SelfTest ==
    (edges = 0 /\ consumed = <<>>) =>
        /\ Len(portHist) <= 4
        /\ portHist = SubSeq(<<13, 11, 7, 14>>, 1, Len(portHist))
        /\ (fpc \in {"begin", "avail", "read"}) =>
               (PORTB = 14 /\ portHist = <<13, 11, 7, 14>>)

C19_Witness ==
    /\ edges = 0 /\ fpc = "avail" /\ txen /\ delivered = <<>>
    /\ PORTB = 14 /\ portHist = <<13, 11, 7, 14>>

====
